---------------------------- MODULE Spec2Model ----------------------------
(***************************************************************************)
(* Model of packager.py (class PythonPackager and main).                   *)
(*                                                                         *)
(* A path is a sequence of components; a component (a file or directory    *)
(* name) is a sequence of its dot-separated pieces, so "pkg/a.b.py" is     *)
(* << <<"pkg">>, <<"a","b","py">> >>.  The disk is a function from the     *)
(* absolute paths of the files on it to their contents; a directory        *)
(* exists when a file lies under it.                                       *)
(***************************************************************************)
EXTENDS Integers, Sequences, FiniteSets, TLC

VARIABLES os_name, disk, tempDirs, created, phase, obj, srcBefore,
          workspace, buildLib, manifest, invocations, proc, dependencies,
          copiedFiles, diag, result

vars == << os_name, disk, tempDirs, created, phase, obj, srcBefore,
           workspace, buildLib, manifest, invocations, proc, dependencies,
           copiedFiles, diag, result >>

\* Number of pipeline objects constructed in one behaviour.
MaxRuns == 2

-----------------------------------------------------------------------------
(* pathlib *)

NoPath == << >>

Parent(p) == SubSeq(p, 1, Len(p) - 1)

Name(p) == p[Len(p)]

IsUnder(p, d) == Len(p) > Len(d) /\ SubSeq(p, 1, Len(d)) = d

RelativeTo(p, d) == SubSeq(p, Len(d) + 1, Len(p))

\* Path.suffixes[-1] of a name: the piece after the last dot; a name without
\* a dot has no suffixes, and indexing the empty list raises IndexError.
HasSuffix(name) == Len(name) >= 2

LastSuffix(name) == name[Len(name)]

\* Path.stem: the name without its last suffix.
Stem(name) == IF HasSuffix(name) THEN SubSeq(name, 1, Len(name) - 1) ELSE name

\* Path.with_suffix: the last suffix replaced.
WithSuffix(p, s) == Parent(p) \o << Stem(Name(p)) \o << s >> >>

\* str.lower on a suffix.
Lower(s) == IF s = "PY" THEN "py" ELSE s

IsFile(p, d) == p \in DOMAIN d

IsDir(p, d) == \E q \in DOMAIN d : IsUnder(q, p)

Exists(p, d) == IsFile(p, d) \/ IsDir(p, d)

\* Files below directory p (os.walk, rglob('*')).
Walk(p, d) == { q \in DOMAIN d : IsUnder(q, p) }

\* rglob('*<.ext>') below p: the files whose name ends with the suffix.
RGlobSuffix(p, d, ext) ==
  { q \in Walk(p, d) : HasSuffix(Name(q)) /\ LastSuffix(Name(q)) = ext }

\* rglob('<name>') below p.
RGlobName(p, d, name) == { q \in Walk(p, d) : Name(q) = name }

Put(d, p, c) == [ q \in DOMAIN d \cup {p} |-> IF q = p THEN c ELSE d[q] ]

EmptyTree == [ q \in {} |-> 0 ]

-----------------------------------------------------------------------------
(* File contents *)

Content(kind, pre, body, of, entries) ==
  [ kind |-> kind, pre |-> pre, body |-> body, of |-> of, entries |-> entries ]

Src(body) == Content("src", << >>, body, << >>, {})

Txt(body) == Content("txt", << >>, body, << >>, {})

Imp(kind, level, module) == [ kind |-> kind, level |-> level, module |-> module ]

\* Whether ast.parse accepts a source body.
Parses(body) == body # "broken"

\* The Import / ImportFrom nodes ast.walk finds in a source body.
Imports(body) ==
  CASE body = "calc" -> { Imp("import", 0, <<"os">>), Imp("from", 0, <<"math">>) }
    [] body = "init" -> { Imp("from", 1, << >>) }
    [] body = "mod"  -> { Imp("import", 0, <<"requests", "adapters">>),
                          Imp("from", 1, <<"sibling">>),
                          Imp("import", 0, <<"os">>) }
    [] body = "svc"  -> { Imp("from", 0, <<"yaml", "loader">>),
                          Imp("import", 0, <<"json">>) }
    [] body = "broken" -> { Imp("import", 0, <<"numpy">>) }
    [] OTHER -> {}

\* sys.stdlib_module_names
StdlibModules == { "os", "math", "json", "sys" }

-----------------------------------------------------------------------------
(* The machine the tool runs on *)

Proj == << <<"proj">> >>

OutDir == << <<"out">> >>

Site == << <<"site">> >>

BannerPath == Proj \o << <<"banner", "txt">> >>

InitDisk ==
  LET files ==
        { << Proj \o << <<"calc", "py">> >>, Src("calc") >>,
          << Proj \o << <<"tool", "PY">> >>, Src("calc") >>,
          << Proj \o << <<"notes", "txt">> >>, Txt("notes") >>,
          << Proj \o << <<"README">> >>, Txt("readme") >>,
          << BannerPath, Txt("banner") >>,
          << Proj \o << <<"pkg">>, <<"__init__", "py">> >>, Src("init") >>,
          << Proj \o << <<"pkg">>, <<"mod", "py">> >>, Src("mod") >>,
          << Proj \o << <<"dup">>, <<"a", "b", "py">> >>, Src("broken") >>,
          << Proj \o << <<"dup">>, <<"a">>, <<"b", "py">> >>, Src("svc") >>,
          << OutDir \o << <<"old", "txt">> >>, Txt("old") >>,
          << Site \o << <<"requests">>, <<"__init__", "py">> >>, Src("plain") >>,
          << Site \o << <<"yaml">>, <<"__init__", "py">> >>, Src("plain") >> }
  IN [ p \in { f[1] : f \in files } |-> (CHOOSE f \in files : f[1] = p)[2] ]

\* The source_path arguments tried.
SourcePaths ==
  { Proj \o << <<"calc", "py">> >>, Proj \o << <<"tool", "PY">> >>,
    Proj \o << <<"notes", "txt">> >>,
    Proj \o << <<"README">> >>, Proj \o << <<"ghost", "py">> >>,
    Proj \o << <<"pkg">> >>, Proj \o << <<"dup">> >> }

\* The output_dir arguments tried (NoPath: not given).
OutputDirs == { NoPath, OutDir }

\* The option combinations tried: the command line's defaults, and each
\* option switched.
Opt(package_format, include_deps, optimize, banner_file) ==
  [ package_format |-> package_format, include_deps |-> include_deps,
    optimize |-> optimize, banner_file |-> banner_file ]

Options ==
  { Opt("so", TRUE, TRUE, NoPath), Opt("so", FALSE, TRUE, BannerPath),
    Opt("pyd", TRUE, FALSE, BannerPath), Opt("pyd", FALSE, FALSE, NoPath) }


ExitCodes == { 0, 1 }

\* What the compiler may leave on its standard error (a sequence of lines).
Stderrs == { << >>, << "error: compilation failed" >> }

\* Faults of the archive writer: none, ZipFile() cannot create the file, or
\* a write fails once the file is created (here: the first write).
ZipFaults == { "none", "open", "write" }

-----------------------------------------------------------------------------
(* PythonPackager.__init__ and __del__ *)

NoObject ==
  [ source_path |-> NoPath, output_dir |-> NoPath, package_format |-> "so",
    include_deps |-> FALSE, optimize |-> FALSE, banner_file |-> NoPath,
    is_directory |-> FALSE, temp_dir |-> 0 ]

\* The default of output_dir: the parent of the source path.
OutputDirOf(source_path, output_dir) ==
  IF output_dir # NoPath THEN output_dir ELSE Parent(source_path)

\* Faulty variant of the constructor's checks: the suffix of a file target is
\* not looked at.
CtorRaisesOnlyMissing(source_path, d) ==
  IF ~Exists(source_path, d) THEN "FileNotFoundError" ELSE "none"

\* The exception the constructor's checks raise for a source path ("none":
\* they pass).  suffixes[-1] of a name without a dot raises IndexError.
CtorRaises(source_path, d) ==
  IF ~Exists(source_path, d) THEN "FileNotFoundError"
  ELSE IF IsDir(source_path, d) THEN "none"
  ELSE IF ~HasSuffix(Name(source_path)) THEN "IndexError"
  ELSE IF Lower(LastSuffix(Name(source_path))) # "py" THEN "ValueError"
  ELSE "none"

\* Faulty variant of __del__: the workspace is left on the disk.
DelKeepsWorkspace(o, temps) == temps

\* __del__: the workspace is removed when the attribute is set and the
\* directory exists.  temp_dir = 0 stands for an object without the attribute.
Del(o, temps) ==
  IF o.temp_dir # 0 /\ o.temp_dir \in temps THEN temps \ { o.temp_dir } ELSE temps

-----------------------------------------------------------------------------
(* analyze_dependencies *)

PythonFiles(o, d) ==
  IF o.is_directory THEN RGlobSuffix(o.source_path, d, "py") ELSE { o.source_path }

\* The names one Import / ImportFrom node adds.
NodeDependencies(n) ==
  IF n.kind = "import" THEN { n.module[1] }
  ELSE IF n.module # << >> THEN { n.module[1] } ELSE {}

\* The names one file adds; a file that does not parse adds none.
FileDependencies(c) ==
  IF Parses(c.body) THEN UNION { NodeDependencies(n) : n \in Imports(c.body) } ELSE {}

AnalyzeDependencies(o, d) ==
  UNION { FileDependencies(d[f]) : f \in PythonFiles(o, d) } \ StdlibModules

-----------------------------------------------------------------------------
(* _process_directory, _process_single_file *)

\* The banner text read for injection, wrapped in newlines; empty when no
\* banner file is given or the file does not exist.
BannerContent(o, d) ==
  IF o.banner_file # NoPath /\ IsFile(o.banner_file, d)
  THEN << "\n" >> \o d[o.banner_file].pre \o << d[o.banner_file].body >> \o << "\n" >>
  ELSE << >>

\* A file rewritten with the banner in front of its content.
WithBanner(c, banner) == [ c EXCEPT !.pre = banner \o c.pre ]

\* shutil.copytree(source_path, temp_src_dir / source_path.name): the staged
\* tree, keyed by the path relative to temp_src_dir.
CopyTree(o, d) ==
  LET rel(q) == << Name(o.source_path) >> \o RelativeTo(q, o.source_path)
      files == Walk(o.source_path, d)
  IN [ r \in { rel(q) : q \in files } |-> d[CHOOSE q \in files : rel(q) = r] ]

\* The loop over python_files: each is rewritten with the banner in front
\* and renamed to .pyx; the other files of the copied tree stay as copied.
RenameToPyx(tree, python_files, banner) ==
  [ raised |-> "none",
    tree |-> [ r \in (DOMAIN tree \ python_files)
                       \cup { WithSuffix(f, "pyx") : f \in python_files } |->
                 IF r \in DOMAIN tree \ python_files THEN tree[r]
                 ELSE WithBanner(tree[CHOOSE f \in python_files :
                                        WithSuffix(f, "pyx") = r], banner) ],
    pyx_files |-> { WithSuffix(f, "pyx") : f \in python_files } ]

StageTree(tree, banner) == RenameToPyx(tree, RGlobSuffix(NoPath, tree, "py"), banner)

\* The staged tree after banner injection and the renaming of every *.py
\* file to *.pyx, with the list of the renamed files.
ProcessDirectory(o, d) == StageTree(CopyTree(o, d), BannerContent(o, d))

\* _process_single_file reads self.source_file in its first statement; no
\* attribute of that name is ever set, so the call raises AttributeError
\* before anything is staged.
ProcessSingleFile(o, d) ==
  [ raised |-> "AttributeError", tree |-> EmptyTree, pyx_files |-> {} ]

-----------------------------------------------------------------------------
(* package_with_cython: the generated setup.py *)

RECURSIVE Flatten(_)
Flatten(p) == IF p = << >> THEN << >> ELSE p[1] \o Flatten(Tail(p))

\* Extension name: module_name[:-4].replace('/', '.') on the relative path
\* of a .pyx file; as the sequence of its dot-separated pieces.
ModuleName(rel) == LET f == Flatten(rel) IN SubSeq(f, 1, Len(f) - 1)

PackageName(o) ==
  IF o.is_directory THEN Name(o.source_path) ELSE Stem(Name(o.source_path))

CompilerDirectives(o) ==
  { "language_level" } \cup
  (IF o.optimize THEN { "optimize.use_switch", "wraparound=False", "boundscheck=False" }
   ELSE {})

ExtraCompileArgs(o) == IF o.optimize THEN << "-O3", "-ffast-math" >> ELSE << >>

NoManifest ==
  [ name |-> << >>, units |-> {}, directives |-> {}, extra_compile_args |-> << >> ]

SetupPy(o, pyx_files) ==
  [ name |-> PackageName(o),
    units |-> { [ source |-> f, name |-> ModuleName(f) ] : f \in pyx_files },
    directives |-> CompilerDirectives(o),
    extra_compile_args |-> ExtraCompileArgs(o) ]

\* The suffix of the files looked for under build_lib.
Ext(o, osn) ==
  IF o.package_format = "pyd" /\ osn = "nt" THEN "pyd"
  ELSE IF o.package_format = "so" /\ osn # "nt" THEN "so"
  ELSE IF osn = "nt" THEN "pyd" ELSE "so"


-----------------------------------------------------------------------------
(* package_with_cython: the compiler subprocess *)

\* Faulty variant: subprocess.run without check=True never raises.
CheckRaisesNever(exit) == FALSE

\* subprocess.run(..., check=True) raises CalledProcessError on a non-zero
\* exit status.
CheckRaises(exit) == exit # 0

PlatformExt(osn) == IF osn = "nt" THEN "pyd" ELSE "so"

\* Where build_ext writes the binary of an extension under build_lib: one
\* directory per piece of the extension's name, the last piece being the
\* file (the interpreter's ABI tag in the file name is left out).
ArtifactPath(name, osn) ==
  [ i \in 1..Len(name) |->
      IF i < Len(name) THEN << name[i] >> ELSE << name[i], PlatformExt(osn) >> ]

\* The content of build_lib once the compiler has built the extensions
\* `built`; build_ext writes extension binaries only.
BuildExt(built, osn) ==
  [ r \in { ArtifactPath(n, osn) : n \in built } |->
      Content("bin", << >>, "binary", CHOOSE n \in built : ArtifactPath(n, osn) = r, {}) ]

-----------------------------------------------------------------------------
(* package_with_cython: copying the binaries to the output directory *)

\* Faulty variant: the binaries are put beside the source whatever output
\* directory was asked for.
OutputFileBesideSource(o, rel) == Parent(o.source_path) \o rel

\* The file a build_lib entry is copied to.
OutputFile(o, rel) == o.output_dir \o rel

RECURSIVE CopyAll(_, _, _, _)
CopyAll(o, d, bl, files) ==
  IF files = {} THEN d
  ELSE LET f == CHOOSE x \in files : TRUE
       IN CopyAll(o, Put(d, OutputFile(o, f), bl[f]), bl, files \ {f})

\* The two copy loops: `done` are the binaries copied before an I/O fault
\* (all of them: no fault).
CopyArtifacts(o, d, bl, dyn_lib_files, init_files, done) ==
  IF dyn_lib_files = {}
  THEN [ raised |-> "FileNotFoundError", disk |-> d, copied |-> {} ]
  ELSE IF done # dyn_lib_files
  THEN [ raised |-> "OSError",
         disk |-> CopyAll(o, d, bl, done),
         copied |-> { OutputFile(o, f) : f \in done } ]
  ELSE [ raised |-> "none",
         disk |-> CopyAll(o, d, bl, dyn_lib_files \cup init_files),
         copied |-> { OutputFile(o, f) : f \in dyn_lib_files \cup init_files } ]

\* The try block after the compiler returned.
CollectArtifacts(o, d, bl, osn, done) ==
  CopyArtifacts(o, d, bl, RGlobSuffix(NoPath, bl, Ext(o, osn)),
                RGlobName(NoPath, bl, << "__init__", "py" >>), done)

Msg(where, text) == [ where |-> where, text |-> text ]

\* What subprocess.run hands back (CompletedProcess, or the fields of
\* CalledProcessError); returncode -1: the compiler was not run.
NoProc == [ returncode |-> -1, stderr |-> << >> ]

\* The outcome of package_with_cython when the compiler was run.
Packaged(raised, st, mf, bl, pr, d, copied, msgs) ==
  [ raised |-> raised, tree |-> st.tree, build_lib |-> bl, manifest |-> mf,
    invoked |-> 1, proc |-> pr, disk |-> d, copied |-> copied, diag |-> msgs ]

\* The except clauses of package_with_cython print the error and re-raise.
AfterCollect(st, mf, bl, pr, col) ==
  Packaged(col.raised, st, mf, bl, pr, col.disk, col.copied,
           IF col.raised = "none" THEN << >>
           ELSE << Msg("package_with_cython", << col.raised >>) >>)

\* subprocess.run and what follows it.
BuildAndCollect(o, d, osn, st, pr, bl, done) ==
  IF CheckRaises(pr.returncode)
  THEN Packaged("CalledProcessError", st, SetupPy(o, st.pyx_files), bl, pr, d, {},
                << Msg("package_with_cython",
                       IF pr.stderr # << >> THEN pr.stderr
                       ELSE << "CalledProcessError" >>) >>)
  ELSE AfterCollect(st, SetupPy(o, st.pyx_files), bl, pr,
                    CollectArtifacts(o, d, bl, osn, done))

\* Staging raised: nothing is generated and the compiler is not run.
NotStaged(st, d) ==
  [ raised |-> st.raised, tree |-> st.tree, build_lib |-> EmptyTree,
    manifest |-> NoManifest, invoked |-> 0, proc |-> NoProc,
    disk |-> d, copied |-> {}, diag |-> << >> ]

AfterStaging(o, d, osn, st, pr, bl, done) ==
  IF st.raised # "none" THEN NotStaged(st, d)
  ELSE BuildAndCollect(o, d, osn, st, pr, bl, done)

\* package_with_cython as a whole.
PackageWithCython(o, d, osn, exit, stderr, built, done) ==
  AfterStaging(o, d, osn,
               IF o.is_directory THEN ProcessDirectory(o, d) ELSE ProcessSingleFile(o, d),
               [ returncode |-> exit, stderr |-> stderr ],
               BuildExt(built, osn), done)

-----------------------------------------------------------------------------
(* run: the archive *)

DepsDir == << <<"deps">> >>

\* importlib.util.find_spec(dep).origin: the package's __init__.py, the
\* module's file, or NoPath when the name is not installed.
SpecOrigin(dep, d) ==
  IF IsFile(Site \o << << dep >>, << "__init__", "py" >> >>, d)
  THEN Site \o << << dep >>, << "__init__", "py" >> >>
  ELSE IF IsFile(Site \o << << dep, "py" >> >>, d)
  THEN Site \o << << dep, "py" >> >>
  ELSE NoPath

Entry(src, arc) == [ src |-> src, arc |-> arc ]

OriginFiles(origin, d) ==
  IF origin = NoPath THEN {}
  ELSE IF IsFile(origin, d) THEN { Entry(origin, DepsDir \o << Name(origin) >>) }
  ELSE { Entry(f, DepsDir \o RelativeTo(f, Parent(Parent(origin)))) :
           f \in Walk(Parent(origin), d) }

\* The (file, archive path) pairs collected for one dependency.
DependencyFiles(dep, d) == OriginFiles(SpecOrigin(dep, d), d)

\* The pairs added for "the main module": every file below output_dir.
MainFiles(o, d) == { Entry(f, RelativeTo(f, o.output_dir)) : f \in Walk(o.output_dir, d) }

\* output_dir / f"{source_path.name}_with_deps.zip"
ZipOutput(o) == o.output_dir \o << Name(o.source_path) \o << "_with_deps", "zip" >> >>

\* create_zip_package: the disk after writing (or failing to write) the
\* archive.
CreateZipPackage(d, files, output_file, fault) ==
  IF fault = "open" THEN d
  ELSE IF fault = "write" THEN Put(d, output_file, Content("zip", << >>, "archive", << >>, {}))
  ELSE Put(d, output_file, Content("zip", << >>, "archive", << >>, files))

Returned(res, deps, pk, d, msgs) ==
  [ result |-> res, deps |-> deps, tree |-> pk.tree, build_lib |-> pk.build_lib,
    manifest |-> pk.manifest, invoked |-> pk.invoked, proc |-> pk.proc,
    disk |-> d, copied |-> pk.copied, diag |-> msgs ]

\* run() returns before package_with_cython is called.
NotPackaged(deps, d, msgs) ==
  [ result |-> "None", deps |-> deps, tree |-> EmptyTree, build_lib |-> EmptyTree,
    manifest |-> NoManifest, invoked |-> 0, proc |-> NoProc, disk |-> d,
    copied |-> {}, diag |-> msgs ]

\* The pairs handed to create_zip_package.
DependencyFileList(o, d, deps) ==
  UNION { DependencyFiles(dep, d) : dep \in deps } \cup MainFiles(o, d)

\* run() from the return of package_with_cython on.
AfterPackaging(o, deps, pk, fault) ==
  IF pk.raised # "none"
  THEN Returned("None", deps, pk, pk.disk, pk.diag \o << Msg("run", << pk.raised >>) >>)
  ELSE IF o.include_deps /\ deps # {}
  THEN Returned(IF fault = "none" THEN "zip" ELSE "None", deps, pk,
                CreateZipPackage(pk.disk, DependencyFileList(o, pk.disk, deps),
                                 ZipOutput(o), fault),
                IF fault = "none" THEN << >> ELSE << Msg("run", << "OSError" >>) >>)
  ELSE Returned("dir", deps, pk, pk.disk, pk.diag)

RunWith(o, d, osn, cython, exit, stderr, built, done, fault, deps) ==
  IF o.package_format \notin { "pyd", "so" }
  THEN NotPackaged(deps, d, << Msg("run", << "ValueError" >>) >>)
  ELSE IF ~cython
  THEN NotPackaged(deps, d, << Msg("run", << "ImportError" >>) >>)
  ELSE AfterPackaging(o, deps,
                      PackageWithCython(o, d, osn, exit, stderr, built, done), fault)

\* run() as a whole: what it returns and what it leaves behind.
RunOutcome(o, d, osn, cython, exit, stderr, built, done, fault) ==
  RunWith(o, d, osn, cython, exit, stderr, built, done, fault,
          IF o.include_deps THEN AnalyzeDependencies(o, d) ELSE {})

-----------------------------------------------------------------------------
(* The state machine *)

Init ==
  /\ os_name \in { "posix", "nt" }
  /\ disk = InitDisk
  /\ tempDirs = {}
  /\ created = 0
  /\ phase = "idle"
  /\ obj = NoObject
  /\ srcBefore = EmptyTree
  /\ workspace = EmptyTree
  /\ buildLib = EmptyTree
  /\ manifest = NoManifest
  /\ invocations = 0
  /\ proc = NoProc
  /\ dependencies = {}
  /\ copiedFiles = {}
  /\ diag = << >>
  /\ result = "unset"

\* The original target as it is on the disk: the file, or the files of the
\* directory tree.
SourceTree(source_path, d) ==
  [ q \in { x \in DOMAIN d : x = source_path \/ IsUnder(x, source_path) } |-> d[q] ]

\* packager = PythonPackager(...): the fields are assigned, the checks run,
\* and only then is the workspace created.
Construct ==
  /\ phase \in { "idle", "rejected" }
  /\ created < MaxRuns
  /\ \E source_path \in SourcePaths, output_dir \in OutputDirs, opt \in Options :
       LET o == [ source_path |-> source_path,
                  output_dir |-> OutputDirOf(source_path, output_dir),
                  package_format |-> opt.package_format,
                  include_deps |-> opt.include_deps,
                  optimize |-> opt.optimize,
                  banner_file |-> opt.banner_file,
                  is_directory |-> IsDir(source_path, disk),
                  temp_dir |-> 0 ]
       IN IF CtorRaises(source_path, disk) # "none"
          THEN /\ phase' = "rejected"
               /\ obj' = [ NoObject EXCEPT !.source_path = source_path ]
               /\ diag' = << Msg("__init__", << CtorRaises(source_path, disk) >>) >>
               /\ UNCHANGED << tempDirs, created >>
          ELSE /\ phase' = "constructed"
               /\ obj' = [ o EXCEPT !.temp_dir = created + 1 ]
               /\ diag' = << >>
               /\ tempDirs' = tempDirs \cup { created + 1 }
               /\ created' = created + 1
  /\ srcBefore' = SourceTree(obj'.source_path, disk)
  /\ result' = "unset"
  /\ UNCHANGED << os_name, disk, workspace, buildLib, manifest, invocations,
                  proc, dependencies, copiedFiles >>

\* Whether run() gets as far as the compiler subprocess; the choices of the
\* environment below are drawn only where the run reads them.
CompilerRuns(o, cython) ==
  o.package_format \in { "pyd", "so" } /\ cython /\ o.is_directory

UnitNames(o, d) == { u.name : u \in SetupPy(o, ProcessDirectory(o, d).pyx_files).units }

\* The state run() leaves.
Finish(out) ==
  /\ result' = out.result
  /\ dependencies' = out.deps
  /\ workspace' = out.tree
  /\ buildLib' = out.build_lib
  /\ manifest' = out.manifest
  /\ invocations' = out.invoked
  /\ proc' = out.proc
  /\ disk' = out.disk
  /\ copiedFiles' = out.copied
  /\ diag' = out.diag

\* The binaries copied before an I/O fault, for each way the copy loop can
\* go; after a failed compile the loop is not reached.
CopyRuns(exit, artifacts) == IF exit = 0 THEN SUBSET artifacts ELSE { artifacts }

\* result = packager.run()
Run ==
  /\ phase = "constructed"
  /\ \E cython \in BOOLEAN :
     \E exit \in IF CompilerRuns(obj, cython) THEN ExitCodes ELSE { 0 } :
     \E stderr \in IF exit # 0 THEN Stderrs ELSE { << >> } :
     \E built \in IF CompilerRuns(obj, cython) THEN SUBSET UnitNames(obj, disk) ELSE { {} } :
     \E done \in CopyRuns(exit, DOMAIN BuildExt(built, os_name)) :
     \E fault \in IF obj.include_deps /\ exit = 0 THEN ZipFaults ELSE { "none" } :
       Finish(RunOutcome(obj, disk, os_name, cython, exit, stderr, built, done, fault))
  /\ phase' = "ran"
  /\ UNCHANGED << os_name, tempDirs, created, obj, srcBefore >>

\* The object goes out of scope (main returns or exits): __del__ runs and
\* the workspace, with everything in it, is removed.
Discard ==
  /\ phase \in { "constructed", "ran" }
  /\ tempDirs' = Del(obj, tempDirs)
  /\ phase' = "idle"
  /\ obj' = NoObject
  /\ srcBefore' = EmptyTree
  /\ workspace' = EmptyTree
  /\ buildLib' = EmptyTree
  /\ manifest' = NoManifest
  /\ invocations' = 0
  /\ proc' = NoProc
  /\ dependencies' = {}
  /\ copiedFiles' = {}
  /\ diag' = << >>
  /\ result' = "unset"
  /\ UNCHANGED << os_name, disk, created >>

Next == Construct \/ Run \/ Discard

Spec == Init /\ [][Next]_vars

-----------------------------------------------------------------------------
(* Properties *)

InitPy == << "__init__", "py" >>

Said(text) == \E i \in DOMAIN diag : diag[i].text = text

\* run() got past the import of Cython.
CythonFound == ~Said(<< "ImportError" >>)

Succeeded == result \in { "dir", "zip" }

\* C1: for an existing .py file target, with include-deps off and the
\* compiler available, staging hands exactly one module unit to the
\* generated build description, the compiler is run on it, and when it exits
\* 0 having produced the module's binary, run() succeeds with exactly one
\* artifact, <stem>.<platform-ext>, in the output directory and no archive.
C1_SingleFileBuilds ==
  (phase = "ran" /\ ~obj.is_directory /\ ~obj.include_deps
     /\ obj.package_format \in { "pyd", "so" } /\ CythonFound)
  => /\ Cardinality(manifest.units) = 1
     /\ invocations = 1
     /\ (proc.returncode = 0 /\ DOMAIN buildLib # {})
          => /\ result = "dir"
             /\ copiedFiles = { obj.output_dir \o
                                  << Stem(Name(obj.source_path)) \o << PlatformExt(os_name) >> >> }
             /\ ~IsFile(ZipOutput(obj), disk)

\* C2: when run() returns the failure indication, no file this run copied
\* is in the output directory; when it returns success, an artifact tree
\* has been produced (and the archive, when that is what it returns).
C2_NoPartialOutput ==
  phase = "ran"
  => /\ result = "None" => copiedFiles \cap DOMAIN disk = {}
     /\ Succeeded => copiedFiles # {} /\ copiedFiles \subseteq DOMAIN disk
     /\ result = "zip" => IsFile(ZipOutput(obj), disk)

\* C3: the compiler is never invoked on a build description in which two
\* build units have the same name.
C3_NoCollisionReachesCompiler ==
  invocations > 0
  => \A u, v \in manifest.units : u.name = v.name => u = v

\* C4 as stated: after a run, whatever the target, the output directory and
\* the outcome, the original target holds exactly the files it held before,
\* with the same contents.
C4_SourceNeverMutated ==
  phase \in { "constructed", "ran" } => SourceTree(obj.source_path, disk) = srcBefore

\* The output directory is neither the source path, nor above it, nor
\* inside it.
OutputApart(o) ==
  /\ o.output_dir # o.source_path
  /\ ~IsUnder(o.source_path, o.output_dir)
  /\ ~IsUnder(o.output_dir, o.source_path)

\* C4 as amended: a run changes the original target only where it places an
\* output file (a copied artifact or the archive): every other file of the
\* target is still there with its content, nothing else is added, and the
\* staged copies, not the originals, carry the banner and the .pyx suffix;
\* with an output directory apart from the source path the target holds
\* exactly the files it held before.
C4_SourceChangedOnlyByOutput ==
  phase \in { "constructed", "ran" }
  => /\ \A p \in DOMAIN srcBefore :
          /\ IsFile(p, disk)
          /\ p \notin copiedFiles \cup { ZipOutput(obj) } => disk[p] = srcBefore[p]
     /\ \A p \in DOMAIN SourceTree(obj.source_path, disk) :
          p \in DOMAIN srcBefore \cup copiedFiles \cup { ZipOutput(obj) }
     /\ OutputApart(obj) => SourceTree(obj.source_path, disk) = srcBefore

\* A directory run with a banner and an output directory of its own has
\* succeeded: the staged copies carry the banner, artifacts were copied.
C4_Witness ==
  /\ phase = "ran" /\ Succeeded
  /\ obj.is_directory /\ OutputApart(obj) /\ obj.banner_file # NoPath
  /\ copiedFiles # {}
  /\ \E r \in DOMAIN workspace : workspace[r].pre # << >>

\* C5: after a successful run on a directory holding a package initializer,
\* the output directory holds an __init__.py at the same relative path.
C5_InitRetained ==
  (phase = "ran" /\ Succeeded)
  => \A p \in DOMAIN srcBefore :
       Name(p) = InitPy
       => IsFile(obj.output_dir \o << Name(obj.source_path) >>
                   \o RelativeTo(p, obj.source_path), disk)

\* The set C6 describes: plain imports and non-relative from-imports of the
\* files that parse, by first segment, without the standard library.
ClaimedDependencies(tree) ==
  UNION { IF Parses(tree[f].body)
          THEN { n.module[1] : n \in { m \in Imports(tree[f].body) :
                                         m.level = 0 /\ m.module # << >> } }
          ELSE {} :
          f \in { q \in DOMAIN tree : HasSuffix(Name(q)) /\ LastSuffix(Name(q)) = "py" } }
    \ StdlibModules

\* C6: analyze_dependencies returns exactly that set; relative from-imports,
\* with or without a module name, add nothing.
C6_DependenciesExact ==
  (phase = "ran" /\ obj.include_deps) => dependencies = ClaimedDependencies(srcBefore)

C8_WorkspaceRemoved ==
  tempDirs = IF phase \in { "constructed", "ran" } THEN { obj.temp_dir } ELSE {}

\* Every pipeline object the bound allows has been created and discarded.
C8_Witness == phase = "idle" /\ created = MaxRuns /\ tempDirs = {}

\* A source path the constructor must refuse: it does not exist, or it is a
\* file whose name does not end in .py (in either case of the letters).
BadSource(p, d) ==
  \/ ~Exists(p, d)
  \/ IsFile(p, d) /\ ~(Len(Name(p)) >= 2 /\ Lower(Name(p)[Len(Name(p))]) = "py")

\* C9: a constructor call with such a source path raises and creates no
\* workspace.
C9_InputErrorsBeforeWorkspace ==
  [][ (phase \in { "idle", "rejected" } /\ phase' \in { "constructed", "rejected" }
         /\ BadSource(obj'.source_path, disk))
      => /\ phase' = "rejected"
         /\ tempDirs' = tempDirs /\ created' = created
         /\ Len(diag') = 1 /\ diag'[1].where = "__init__" ]_vars

\* After an earlier object came and went, a file without any suffix has
\* been refused.
C9_Witness ==
  /\ phase = "rejected" /\ created = 1 /\ tempDirs = {}
  /\ IsFile(obj.source_path, disk) /\ Len(Name(obj.source_path)) = 1

\* C10: every entry of the archive a run produces that is not under deps/
\* is a file the same run copied into the output tree, stored at its path
\* relative to the output directory.
C10_ArchiveHoldsOnlyOwnArtifacts ==
  (phase = "ran" /\ result = "zip")
  => \A e \in disk[ZipOutput(obj)].entries :
       ~IsUnder(e.arc, DepsDir)
       => e.src \in copiedFiles /\ e.arc = RelativeTo(e.src, obj.output_dir)

=============================================================================
